---- MODULE Spec2Model ----
(***************************************************************************)
(* Model of src/prediction.py: the price-history resolver                  *)
(* (fetch_stock_history), the CAGR formula (compute_cagr), the projection  *)
(* loop and result of analyze_stock, and the error display of run_app.     *)
(*                                                                         *)
(* Numbers are exact extended rationals: a finite value n/d in lowest      *)
(* terms, or one of the IEEE specials +inf, -inf, nan that numpy.float64   *)
(* arithmetic produces.  Strings that the code transforms (the ticker and  *)
(* the candidate symbols) are sequences of one-character strings.          *)
(***************************************************************************)
EXTENDS Integers, Sequences, FiniteSets, TLC

VARIABLES pc, ticker, invested_amount, projection_years, candidates, idx,
          calls, prices, final_ticker, stock_info, info_calls, cagr,
          current_price, year, projections, result, raised, ui

vars == <<pc, ticker, invested_amount, projection_years, candidates, idx,
          calls, prices, final_ticker, stock_info, info_calls, cagr,
          current_price, year, projections, result, raised, ui>>

(***************************************************************************)
(* Bounds and input sets                                                   *)
(***************************************************************************)
MaxYears == 3

Tickers == { <<" ", "i", "t", "c", " ">>, <<"T", "c", "s">> }
Amounts == {1, 1000}
Dates == {0, 365, 730}
Closes == {0, 16, 20, 22, 23, 25}

(***************************************************************************)
(* Extended rational arithmetic (numpy.float64 / Python float semantics)   *)
(***************************************************************************)
RECURSIVE GCD(_, _)
GCD(a, b) == IF b = 0 THEN a ELSE GCD(b, a % b)

Abs(n) == IF n < 0 THEN -n ELSE n

Rat(n, d) ==
    LET g == GCD(Abs(n), d)
    IN  [k |-> "fin", n |-> n \div g, d |-> d \div g]

Inf  == [k |-> "inf",  n |-> 0, d |-> 1]
NInf == [k |-> "ninf", n |-> 0, d |-> 1]
NaN  == [k |-> "nan",  n |-> 0, d |-> 1]
Zero == Rat(0, 1)
One  == Rat(1, 1)

IsFinite(x) == x.k = "fin"

\* -1, 0, 1 for ordered values; nan has no sign and is handled by the callers
Sign(x) ==
    CASE x.k = "inf"  -> 1
      [] x.k = "ninf" -> -1
      [] x.k = "nan"  -> 0
      [] OTHER        -> IF x.n > 0 THEN 1 ELSE IF x.n < 0 THEN -1 ELSE 0

Signed(s) == IF s > 0 THEN Inf ELSE NInf

Neg(x) ==
    CASE x.k = "inf"  -> NInf
      [] x.k = "ninf" -> Inf
      [] x.k = "nan"  -> NaN
      [] OTHER        -> Rat(-x.n, x.d)

Add(a, b) ==
    IF a.k = "nan" \/ b.k = "nan" THEN NaN
    ELSE IF IsFinite(a) /\ IsFinite(b) THEN Rat(a.n * b.d + b.n * a.d, a.d * b.d)
    ELSE IF IsFinite(a) THEN b
    ELSE IF IsFinite(b) THEN a
    ELSE IF a.k = b.k THEN a ELSE NaN

Sub(a, b) == Add(a, Neg(b))

Mul(a, b) ==
    IF a.k = "nan" \/ b.k = "nan" THEN NaN
    ELSE IF IsFinite(a) /\ IsFinite(b) THEN
        LET g1 == GCD(Abs(a.n), b.d)
            g2 == GCD(Abs(b.n), a.d)
        IN  Rat((a.n \div g1) * (b.n \div g2), (a.d \div g2) * (b.d \div g1))
    ELSE IF Sign(a) = 0 \/ Sign(b) = 0 THEN NaN
    ELSE Signed(Sign(a) * Sign(b))

\* numpy.float64 true division: a zero divisor gives inf or nan, never raises
Div(a, b) ==
    IF a.k = "nan" \/ b.k = "nan" THEN NaN
    ELSE IF IsFinite(a) /\ IsFinite(b) THEN
        IF b.n = 0 THEN (IF a.n = 0 THEN NaN ELSE Signed(Sign(a)))
        ELSE Mul(a, Rat(Sign(b) * b.d, Abs(b.n)))
    ELSE IF IsFinite(a) THEN Zero
    ELSE IF IsFinite(b) THEN Signed(Sign(a) * (IF Sign(b) < 0 THEN -1 ELSE 1))
    ELSE NaN

Gt(a, b) ==
    IF a.k = "nan" \/ b.k = "nan" THEN FALSE
    ELSE IF IsFinite(a) /\ IsFinite(b) THEN a.n * b.d > b.n * a.d
    ELSE IF a.k = b.k THEN FALSE
    ELSE a.k = "inf" \/ b.k = "ninf"

RECURSIVE IPow(_, _)
IPow(b, e) == IF e = 0 THEN 1 ELSE b * IPow(b, e - 1)

IsPerfectPower(n, m) == \E r \in 0..n : IPow(r, m) = n
IRoot(n, m) == CHOOSE r \in 0..n : IPow(r, m) = n

\* x ** k for a Python int k >= 0
RECURSIVE PowInt(_, _)
PowInt(x, k) == IF k = 0 THEN One ELSE Mul(x, PowInt(x, k - 1))

\* base ** e for a positive unit-fraction exponent e = 1/m (e.n = 1):
\* the m-th root; a negative base with m > 1 gives nan
Pow(base, e) ==
    CASE base.k = "nan"  -> NaN
      [] base.k = "inf"  -> Inf
      [] base.k = "ninf" -> IF e.d = 1 THEN NInf ELSE Inf
      [] OTHER ->
            IF e.d = 1 THEN base
            ELSE IF base.n < 0 THEN NaN
            ELSE Rat(IRoot(base.n, e.d), IRoot(base.d, e.d))

\* round(x, 2): nearest hundredth, ties to even; inf and nan pass through
Round2(x) ==
    IF ~IsFinite(x) THEN x
    ELSE LET whole == x.n \div x.d
             rem   == x.n % x.d
             q     == (rem * 100) \div x.d
             r     == (rem * 100) % x.d
             h     == whole * 100 + q
             up    == \/ 2 * r > x.d
                      \/ (2 * r = x.d /\ h % 2 = 1)
         IN  Rat(IF up THEN h + 1 ELSE h, 100)

(***************************************************************************)
(* Strings: str.strip, str.upper and the candidate symbols                 *)
(***************************************************************************)
IsSpace(c) == c = " "

RECURSIVE LStrip(_)
LStrip(s) == IF s # <<>> /\ IsSpace(Head(s)) THEN LStrip(Tail(s)) ELSE s

RECURSIVE RStrip(_)
RStrip(s) ==
    IF s # <<>> /\ IsSpace(s[Len(s)]) THEN RStrip(SubSeq(s, 1, Len(s) - 1)) ELSE s

Strip(s) == RStrip(LStrip(s))

UpperChar(c) ==
    CASE c = "i" -> "I"
      [] c = "t" -> "T"
      [] c = "c" -> "C"
      [] c = "s" -> "S"
      [] OTHER   -> c

Upper(s) == [i \in 1..Len(s) |-> UpperChar(s[i])]

NS == <<".", "N", "S">>
BO == <<".", "B", "O">>

CandidatesBareFirst(t) == <<t, t \o NS, t \o BO>>
\* candidates = [f"{ticker}.NS", f"{ticker}.BO", ticker]
Candidates(t) == <<t \o NS, t \o BO, t>>

(***************************************************************************)
(* The provider: what yf.Ticker(symbol).history(...) and .info can do      *)
(***************************************************************************)
Points == [date : Dates, close : Closes]

Ascending(h) == \A i \in 1..(Len(h) - 1) : h[i].date <= h[i + 1].date

Days(h) == h[Len(h)].date - h[1].date

\* the growth ratio of the series has an exact root, so that the CAGR of
\* every series the provider hands out is an exact rational
ExactGrowth(h) ==
    \/ Days(h) = 0
    \/ LET ratio == Div(Rat(h[Len(h)].close, 1), Rat(h[1].close, 1))
           m     == Days(h) \div 365
       IN  IsFinite(ratio) => /\ IsPerfectPower(ratio.n, m)
                              /\ IsPerfectPower(ratio.d, m)

EmptyFrame == <<>>

Frames ==
    {EmptyFrame}
      \cup { <<p>> : p \in Points }
      \cup { h \in { <<p, q>> : p \in Points, q \in Points } :
                 Ascending(h) /\ ExactGrowth(h) }

IsEmpty(h) == Len(h) = 0

InfoKeys == {"sector", "currency"}
FullInfo == [key \in InfoKeys |-> IF key = "sector" THEN "Financial Services" ELSE "INR"]
Infos == { [key \in S |-> FullInfo[key]] : S \in SUBSET InfoKeys }
EmptyInfo == [key \in {} |-> "N/A"]

HistoryError == [type |-> "HistoryError", text |-> <<"history failed">>]
InfoError == [type |-> "InfoError", text |-> <<"info failed">>]

(***************************************************************************)
(* fetch_stock_history                                                     *)
(***************************************************************************)
TryHistoryUncaught(raises, frame) ==
    IF raises THEN [exc |-> <<HistoryError>>, history |-> EmptyFrame]
    ELSE [exc |-> <<>>, history |-> frame]
\* try: history = ...history(...)   except Exception: history = pd.DataFrame()
TryHistory(raises, frame) ==
    IF raises THEN [exc |-> <<>>, history |-> EmptyFrame]
    ELSE [exc |-> <<>>, history |-> frame]

EmptySeries == [name |-> <<>>, points |-> <<>>]

CloseRenamedFirst(history, symbol) == [name |-> candidates[1], points |-> history]
\* history["Close"].rename(symbol)
CloseRenamed(history, symbol) == [name |-> symbol, points |-> history]

OutcomeKind(raises, frame) ==
    IF raises THEN "error" ELSE IF IsEmpty(frame) THEN "empty" ELSE "data"

\* one iteration of the loop over the candidates
FetchStep(raises, frame) ==
    LET symbol == candidates[idx]
        r      == TryHistory(raises, frame)
    IN  /\ calls' = Append(calls, [symbol |-> symbol, outcome |-> OutcomeKind(raises, frame)])
        /\ IF r.exc # <<>>
           THEN /\ raised' = r.exc
                /\ pc' = "raised"
                /\ UNCHANGED <<idx, prices>>
           ELSE IF ~IsEmpty(r.history)
           THEN /\ prices' = CloseRenamed(r.history, symbol)
                /\ pc' = "fetched"
                /\ UNCHANGED <<idx, raised>>
           ELSE IF idx < Len(candidates)
           THEN /\ idx' = idx + 1
                /\ UNCHANGED <<pc, prices, raised>>
           ELSE /\ prices' = EmptySeries
                /\ pc' = "fetched"
                /\ UNCHANGED <<idx, raised>>
        /\ UNCHANGED <<ticker, invested_amount, projection_years, candidates,
                       final_ticker, stock_info, info_calls, cagr,
                       current_price, year, projections, result, ui>>

(***************************************************************************)
(* compute_cagr                                                            *)
(***************************************************************************)
ZeroDivision == [type |-> "ZeroDivisionError", text |-> <<"float division by zero">>]

First(s) == Rat(s.points[1].close, 1)
Last(s) == Rat(s.points[Len(s.points)].close, 1)

compute_cagr_numpy(s) ==
    LET days  == Days(s.points)
        ratio == Div(Last(s), First(s))
    IN  IF days = 0
        THEN [err |-> <<>>, value |-> Sub(Pow(ratio, One), One)]
        ELSE [err |-> <<>>, value |-> Sub(Pow(ratio, Div(One, Rat(days, 365))), One)]
\* days = (index[-1] - index[0]).days; years = days / 365.0;
\* (iloc[-1] / iloc[0]) ** (1 / years) - 1, where 1 / 0.0 raises
compute_cagr(s) ==
    LET days  == Days(s.points)
        years == Rat(days, 365)
        ratio == Div(Last(s), First(s))
    IN  IF years.n = 0
        THEN [err |-> <<ZeroDivision>>, value |-> NaN]
        ELSE [err |-> <<>>, value |-> Sub(Pow(ratio, Div(One, years)), One)]

(***************************************************************************)
(* analyze_stock                                                           *)
(***************************************************************************)
NoDataPrefix == "No price data available for "

NoDataErrorNormalized(t) ==
    [type |-> "ValueError", text |-> <<NoDataPrefix>> \o Upper(Strip(t))]
\* ValueError(f"No price data available for {ticker}")
NoDataError(t) == [type |-> "ValueError", text |-> <<NoDataPrefix>> \o t]

TryInfoUncaught(raises, info) ==
    IF raises THEN [exc |-> <<InfoError>>, info |-> EmptyInfo]
    ELSE [exc |-> <<>>, info |-> info]
\* try: stock_info = yf.Ticker(final_ticker).info   except Exception: stock_info = {}
TryInfo(raises, info) ==
    IF raises THEN [exc |-> <<>>, info |-> EmptyInfo]
    ELSE [exc |-> <<>>, info |-> info]

DictGetNone(d, key, default) == IF key \in DOMAIN d THEN d[key] ELSE "None"
\* dict.get(key, default)
DictGet(d, key, default) == IF key \in DOMAIN d THEN d[key] ELSE default

Hundred == Rat(100, 1)

SAFE_CAGR_CAP == Rat(15, 100)

ExceedsCapInclusive(c) == ~Gt(SAFE_CAGR_CAP, c) /\ c.k # "nan"
\* cagr > SAFE_CAGR_CAP
ExceedsCap(c) == Gt(c, SAFE_CAGR_CAP)

RangeStopShort(n) == n
\* range(1, projection_years + 1)
RangeStop(n) == n + 1

GrowthFactorLinear(c, y) == Add(One, Mul(c, Rat(y, 1)))
\* growth_factor = (1 + cagr) ** year
GrowthFactor(c, y) == PowInt(Add(One, c), y)

ProjectionEntry(y, c, price, amount) ==
    LET growth_factor   == GrowthFactor(c, y)
        projected_price == Mul(price, growth_factor)
        profit_pct      == Mul(Sub(growth_factor, One), Hundred)
        profit_amt      == Mul(Rat(amount, 1), Sub(growth_factor, One))
    IN  [year       |-> y,
         proj_price |-> Round2(projected_price),
         profit_pct |-> Round2(profit_pct),
         profit_amt |-> Round2(profit_amt)]

NoWarning == [present |-> FALSE, pct |-> Zero]

Warning(c) ==
    IF ExceedsCap(c) THEN [present |-> TRUE, pct |-> Round2(Mul(c, Hundred))]
    ELSE NoWarning

AnalysisResult ==
    [ticker      |-> final_ticker,
     sector      |-> DictGet(stock_info, "sector", "N/A"),
     currency    |-> DictGet(stock_info, "currency", "N/A"),
     cagr_pct    |-> Round2(Mul(cagr[1], Hundred)),
     buy_price   |-> Round2(current_price),
     projections |-> projections,
     warning     |-> Warning(cagr[1])]

(***************************************************************************)
(* State machine                                                           *)
(***************************************************************************)
Init ==
    /\ pc = "idle"
    /\ ticker = <<>>
    /\ invested_amount = 1
    /\ projection_years = 1
    /\ candidates = <<>>
    /\ idx = 0
    /\ calls = <<>>
    /\ prices = EmptySeries
    /\ final_ticker = <<>>
    /\ stock_info = EmptyInfo
    /\ info_calls = <<>>
    /\ cagr = <<>>
    /\ current_price = Zero
    /\ year = 0
    /\ projections = <<>>
    /\ result = <<>>
    /\ raised = <<>>
    /\ ui = <<>>

\* run_app, "Analyze" pressed: analyze_stock(ticker, invested_amount, years)
\* is entered and fetch_stock_history builds its candidate list
Analyze(t, amount, n) ==
    /\ pc = "idle"
    /\ ticker' = t
    /\ invested_amount' = amount
    /\ projection_years' = n
    /\ candidates' = Candidates(Upper(Strip(t)))
    /\ idx' = 1
    /\ pc' = "fetch"
    /\ UNCHANGED <<calls, prices, final_ticker, stock_info, info_calls, cagr,
                   current_price, year, projections, result, raised, ui>>

\* the provider raises while fetching candidates[idx]
FetchRaises ==
    /\ pc = "fetch"
    /\ FetchStep(TRUE, EmptyFrame)

\* the provider returns a (possibly empty) frame for candidates[idx]
FetchReturns(frame) ==
    /\ pc = "fetch"
    /\ FetchStep(FALSE, frame)

\* if prices.empty: raise ValueError(...)
NoData ==
    /\ pc = "fetched"
    /\ IsEmpty(prices.points)
    /\ raised' = <<NoDataError(ticker)>>
    /\ pc' = "raised"
    /\ UNCHANGED <<ticker, invested_amount, projection_years, candidates, idx,
                   calls, prices, final_ticker, stock_info, info_calls, cagr,
                   current_price, year, projections, result, ui>>

\* final_ticker = prices.name, then the metadata lookup under try/except
InfoStep(raises, info) ==
    LET r == TryInfo(raises, info)
    IN  /\ pc = "fetched"
        /\ ~IsEmpty(prices.points)
        /\ final_ticker' = prices.name
        /\ info_calls' = Append(info_calls, [symbol |-> prices.name, raises |-> raises, info |-> info])
        /\ IF r.exc # <<>>
           THEN /\ raised' = r.exc
                /\ pc' = "raised"
                /\ UNCHANGED stock_info
           ELSE /\ stock_info' = r.info
                /\ pc' = "cagr"
                /\ UNCHANGED raised
        /\ UNCHANGED <<ticker, invested_amount, projection_years, candidates,
                       idx, calls, prices, cagr, current_price, year,
                       projections, result, ui>>

InfoRaises == InfoStep(TRUE, EmptyInfo)

InfoReturns(info) == InfoStep(FALSE, info)

\* cagr = compute_cagr(prices); current_price = prices.iloc[-1]
ComputeCagr ==
    LET r == compute_cagr(prices)
    IN  /\ pc = "cagr"
        /\ IF r.err # <<>>
           THEN /\ raised' = r.err
                /\ pc' = "raised"
                /\ UNCHANGED <<cagr, current_price, year>>
           ELSE /\ cagr' = <<r.value>>
                /\ current_price' = Last(prices)
                /\ year' = 1
                /\ pc' = "project"
                /\ UNCHANGED raised
        /\ UNCHANGED <<ticker, invested_amount, projection_years, candidates,
                       idx, calls, prices, final_ticker, stock_info,
                       info_calls, projections, result, ui>>

\* one iteration of: for year in range(1, projection_years + 1)
ProjectYear ==
    /\ pc = "project"
    /\ year < RangeStop(projection_years)
    /\ projections' = Append(projections,
                             ProjectionEntry(year, cagr[1], current_price, invested_amount))
    /\ year' = year + 1
    /\ UNCHANGED <<pc, ticker, invested_amount, projection_years, candidates,
                   idx, calls, prices, final_ticker, stock_info, info_calls,
                   cagr, current_price, result, raised, ui>>

\* the loop is exhausted: return prices, {...}
ReturnResult ==
    /\ pc = "project"
    /\ ~(year < RangeStop(projection_years))
    /\ result' = <<AnalysisResult>>
    /\ pc' = "returned"
    /\ UNCHANGED <<ticker, invested_amount, projection_years, candidates, idx,
                   calls, prices, final_ticker, stock_info, info_calls, cagr,
                   current_price, year, projections, raised, ui>>

\* run_app: except Exception as e: st.error(f"Error: {e}"); return
ShowError ==
    /\ pc = "raised"
    /\ ui' = <<"Error: ">> \o raised[1].text
    /\ pc' = "done"
    /\ UNCHANGED <<ticker, invested_amount, projection_years, candidates, idx,
                   calls, prices, final_ticker, stock_info, info_calls, cagr,
                   current_price, year, projections, result, raised>>

\* run_app: st.header(f"Analysis for {analysis['ticker']}") and the rest
ShowAnalysis ==
    /\ pc = "returned"
    /\ ui' = <<"Analysis for ">> \o result[1].ticker
    /\ pc' = "done"
    /\ UNCHANGED <<ticker, invested_amount, projection_years, candidates, idx,
                   calls, prices, final_ticker, stock_info, info_calls, cagr,
                   current_price, year, projections, result, raised>>

Next ==
    \/ \E t \in Tickers, amount \in Amounts, n \in 1..MaxYears : Analyze(t, amount, n)
    \/ FetchRaises
    \/ \E frame \in Frames : FetchReturns(frame)
    \/ NoData
    \/ InfoRaises
    \/ \E info \in Infos : InfoReturns(info)
    \/ ComputeCagr
    \/ ProjectYear
    \/ ReturnResult
    \/ ShowError
    \/ ShowAnalysis

Spec == Init /\ [][Next]_vars

(***************************************************************************)
(* Properties                                                              *)
(***************************************************************************)
Resolved == pc \notin {"idle", "fetch"}
Returned == result # <<>>
IsFirstData(i) ==
    /\ calls[i].outcome = "data"
    /\ \A j \in 1..(i - 1) : calls[j].outcome # "data"
AllFailed == Resolved /\ \A i \in 1..Len(calls) : calls[i].outcome # "data"

\* C1: once fetch_stock_history has returned, the series is named with the
\* symbol of the first candidate, in candidate order, whose history was
\* non-empty, and the "ticker" field of a returned analysis is that symbol
C1_FirstNonEmptyCandidate ==
    Resolved =>
        \A i \in 1..Len(calls) :
            IsFirstData(i) =>
                /\ calls[i].symbol = candidates[i]
                /\ prices.name = candidates[i]
                /\ ~IsEmpty(prices.points)
                /\ \A j \in 1..Len(candidates) : j # i => prices.name # candidates[j]
                /\ Returned => result[1].ticker = candidates[i]

C1_Witness ==
    /\ pc = "done"
    /\ Returned
    /\ Len(calls) = 2
    /\ calls[1].outcome = "empty"
    /\ calls[2].outcome = "data"
    /\ result[1].ticker = calls[2].symbol

\* C2: a fetch that raises is handled like an empty result: nothing is
\* raised to the caller, and either the next candidate is tried or, after
\* the last candidate, the empty series is returned
C2_FetchErrorSwallowed ==
    [][(pc = "fetch" /\ calls' # calls /\ calls'[Len(calls')].outcome \in {"error", "empty"})
          => /\ raised' = <<>>
             /\ \/ idx < Len(candidates) /\ idx' = idx + 1 /\ pc' = "fetch" /\ prices' = prices
                \/ idx = Len(candidates) /\ pc' = "fetched" /\ prices' = EmptySeries]_vars

C2_Witness ==
    /\ pc = "done"
    /\ Returned
    /\ Len(calls) = 2
    /\ calls[1].outcome = "error"
    /\ calls[2].outcome = "data"
    /\ raised = <<>>

\* C3: when every candidate was empty or failed, the empty series comes
\* back, analyze_stock raises ValueError naming the ticker as the caller
\* supplied it, and no metadata lookup, CAGR, projection or result exists
C3_NoDataError ==
    AllFailed =>
        /\ Len(calls) = Len(candidates)
        /\ prices = EmptySeries
        /\ info_calls = <<>>
        /\ cagr = <<>>
        /\ projections = <<>>
        /\ result = <<>>
        /\ pc # "fetched" =>
              raised = <<[type |-> "ValueError", text |-> <<NoDataPrefix>> \o ticker]>>
        /\ pc = "done" => ui = <<"Error: ", NoDataPrefix>> \o ticker

C3_Witness ==
    /\ pc = "done"
    /\ AllFailed
    /\ ticker = <<" ", "i", "t", "c", " ">>
    /\ calls[1].outcome = "error"
    /\ calls[2].outcome = "empty"
    /\ raised # <<>>

\* C4: a returned analysis has exactly projection_years projection entries
\* and the k-th entry carries year k
C4_ProjectionYears ==
    Returned =>
        /\ Len(result[1].projections) = projection_years
        /\ \A k \in 1..Len(result[1].projections) : result[1].projections[k].year = k

C4_Witness ==
    /\ Returned
    /\ projection_years = 3
    /\ Len(result[1].projections) = 3
    /\ result[1].projections[3].year = 3

CagrAbove15Percent ==
    \/ cagr[1].k = "inf"
    \/ cagr[1].k = "fin" /\ cagr[1].n * 100 > 15 * cagr[1].d

\* C5: the warning of a returned analysis is present exactly when the CAGR
\* is strictly greater than 15%
C5_WarningIffAboveCap ==
    Returned => (result[1].warning.present <=> CagrAbove15Percent)

C5_Witness ==
    /\ Returned
    /\ cagr[1] = [k |-> "fin", n |-> 3, d |-> 20]
    /\ ~result[1].warning.present

ZeroElapsed == ~IsEmpty(prices.points) /\ Days(prices.points) = 0

\* C6: when the first and last dates of the series are zero days apart no
\* CAGR and no analysis is ever produced; the run ends in ZeroDivisionError
C6_ZeroElapsedRaises ==
    ZeroElapsed =>
        /\ cagr = <<>>
        /\ result = <<>>
        /\ pc \notin {"project", "returned"}
        /\ pc \in {"raised", "done"} =>
              (raised # <<>> /\ raised[1].type = "ZeroDivisionError")

C6_Witness ==
    /\ pc = "done"
    /\ Len(prices.points) = 1
    /\ raised # <<>>
    /\ raised[1].type = "ZeroDivisionError"
    /\ result = <<>>

NonPositivePrice ==
    /\ ~IsEmpty(prices.points)
    /\ \/ prices.points[1].close <= 0
       \/ prices.points[Len(prices.points)].close <= 0

\* C7: with a zero (non-positive) price in the CAGR formula no analysis is
\* returned, so no returned analysis carries a non-finite number
C7_NonPositivePriceFails ==
    /\ NonPositivePrice => result = <<>>
    /\ Returned =>
          /\ IsFinite(result[1].cagr_pct)
          /\ \A k \in 1..Len(result[1].projections) :
                /\ IsFinite(result[1].projections[k].proj_price)
                /\ IsFinite(result[1].projections[k].profit_pct)
                /\ IsFinite(result[1].projections[k].profit_amt)

ExpectedField(key) ==
    IF ~info_calls[1].raises /\ key \in DOMAIN info_calls[1].info
    THEN info_calls[1].info[key] ELSE "N/A"

\* C8: whatever the metadata lookup did (raise, or return any subset of
\* sector and currency), a series with elapsed time ends in a returned
\* analysis whose missing fields are "N/A" and whose CAGR, buy price,
\* projections and warning are determined by the series and inputs alone
C8_MetadataFailureNonFatal ==
    (pc = "done" /\ info_calls # <<>> /\ ~ZeroElapsed) =>
        /\ raised = <<>>
        /\ Returned
        /\ result[1].sector = ExpectedField("sector")
        /\ result[1].currency = ExpectedField("currency")
        /\ result[1].cagr_pct = Round2(Mul(compute_cagr(prices).value, Hundred))
        /\ result[1].buy_price = Round2(Last(prices))
        /\ result[1].warning = Warning(compute_cagr(prices).value)
        /\ result[1].projections =
              [k \in 1..projection_years |->
                  ProjectionEntry(k, compute_cagr(prices).value, Last(prices), invested_amount)]

C8_Witness ==
    /\ pc = "done"
    /\ Returned
    /\ info_calls[1].raises
    /\ result[1].sector = "N/A"
    /\ result[1].currency = "N/A"

\* C9: every projection entry of a returned analysis is the pure
\* compounding of the one CAGR of the series from the last historical close
C9_PureCompounding ==
    Returned =>
        /\ cagr[1] = compute_cagr(prices).value
        /\ \A k \in 1..Len(result[1].projections) :
              LET g == PowInt(Add(One, cagr[1]), k)
                  e == result[1].projections[k]
              IN  /\ e.proj_price = Round2(Mul(Last(prices), g))
                  /\ e.profit_pct = Round2(Mul(Sub(g, One), Hundred))
                  /\ e.profit_amt = Round2(Mul(Rat(invested_amount, 1), Sub(g, One)))

C9_Witness ==
    /\ Returned
    /\ cagr[1] = [k |-> "fin", n |-> 1, d |-> 10]
    /\ Len(result[1].projections) = 3
    /\ result[1].buy_price = Rat(22, 1)
    /\ result[1].projections[3].proj_price = Rat(2928, 100)

ExpectedOrder ==
    LET t == Upper(Strip(ticker))
    IN  <<t \o <<".", "N", "S">>, t \o <<".", "B", "O">>, t>>

\* C10: the provider is queried for <T>.NS, <T>.BO, <T> in that order
\* (T the trimmed, upper-cased ticker), each only after every earlier
\* candidate was empty or raised, at most three times
C10_CandidateOrder ==
    /\ Len(calls) <= 3
    /\ \A i \in 1..Len(calls) :
          /\ calls[i].symbol = ExpectedOrder[i]
          /\ i < Len(calls) => calls[i].outcome # "data"
    /\ (calls # <<>> /\ ticker = <<" ", "i", "t", "c", " ">>)
          => calls[1].symbol = <<"I", "T", "C", ".", "N", "S">>
    /\ (Resolved /\ Len(calls) < 3) => calls[Len(calls)].outcome = "data"

C10_Witness ==
    /\ pc = "done"
    /\ Len(calls) = 3
    /\ calls[1].outcome = "error"
    /\ calls[2].outcome = "empty"
    /\ calls[3].outcome = "data"
    /\ calls[3].symbol = <<"I", "T", "C">>
    /\ Returned

====
